---- MODULE Spec2Model ----
(***************************************************************************)
(* Justifi API (src/main.py): routing resolver and approval workflow.      *)
(*                                                                         *)
(* The document store is modelled collection by collection.  A collection  *)
(* whose documents are addressed by _id (routingrule, justification,       *)
(* approvaltask, comment) is a sequence in insertion order and a           *)
(* document's _id is its position.  auditlog and emailoutbox are only ever *)
(* inserted into and are kept as bags of documents.  Timestamps, actor     *)
(* e-mails and the free-text fields that no decision reads are left out of *)
(* the documents; payload.title is taken to be distinct per submission and *)
(* is represented by the id of the justification it names.                 *)
(*                                                                         *)
(* last is the request served most recently (route, path id, comment or    *)
(* reason) with the HTTP status it was answered with.  calls holds the     *)
(* position and the local variables of the requests that are served        *)
(* concurrently in SpecConc; in Spec and SpecRouting a request is served   *)
(* from start to end in one step and calls stays idle.                     *)
(***************************************************************************)
EXTENDS Integers, Sequences, FiniteSets, Bags, TLC

VARIABLES routingrule, justification, approvaltask, comment, auditlog,
          emailoutbox, last, calls

store == <<routingrule, justification, approvaltask, comment, auditlog, emailoutbox>>
vars == <<routingrule, justification, approvaltask, comment, auditlog, emailoutbox, last, calls>>

(* ------------------------------ bounds -------------------------------- *)
MaxRules == 3
MaxJust == 2
MaxAudit == 4

(* --------------------------- value domains ---------------------------- *)
\* Python None for a string-valued field.
NULL == "<null>"
\* A filter key that is absent from a find() filter.
ANY == "<any>"
\* Optional numbers: <<>> is None, <<n>> is the number n.
Spends == {<<>>, <<1>>, <<2>>}
Requester == "req@x"

STATUS_PENDING == "Pending"
STATUS_APPROVED == "Approved"
STATUS_REJECTED == "Rejected"
STATUS_NEEDS_INFO == "NeedsMoreInfo"
J_PENDING == "PendingApproval"

(* ------------------------ store primitives ---------------------------- *)
\* collection.insert_one(doc) on a bag-modelled collection.
insert_one(coll, doc) == coll (+) SetToBag({doc})

\* collection.update_one({"_id": id}, {"$set": {"status": status}}): no match, no change.
set_status(coll, id, status) ==
    IF id \in DOMAIN coll THEN [coll EXCEPT ![id].status = status] ELSE coll

\* db["approvaltask"].count_documents({"justification_id": jid, "status": {"$ne": "Approved"}})
count_not_approved(tasks, jid) ==
    Cardinality({t \in DOMAIN tasks :
        tasks[t].justification_id = jid /\ tasks[t].status # STATUS_APPROVED})

(* ------------------------- routing resolver --------------------------- *)
\* Faulty variant: the department-only tier is scanned before the type-only tier.
candidates_department_first(department, type_code) ==
    (IF department # "" /\ type_code # ""
        THEN <<[department |-> department, type_code |-> type_code]>> ELSE <<>>)
    \o (IF department # "" THEN <<[department |-> department, type_code |-> ANY]>> ELSE <<>>)
    \o (IF type_code # "" THEN <<[department |-> ANY, type_code |-> type_code]>> ELSE <<>>)
    \o <<[department |-> ANY, type_code |-> ANY]>>

\* The filter tiers, most specific first.
candidates(department, type_code) ==
    (IF department # "" /\ type_code # ""
        THEN <<[department |-> department, type_code |-> type_code]>> ELSE <<>>)
    \o (IF type_code # "" THEN <<[department |-> ANY, type_code |-> type_code]>> ELSE <<>>)
    \o (IF department # "" THEN <<[department |-> department, type_code |-> ANY]>> ELSE <<>>)
    \o <<[department |-> ANY, type_code |-> ANY]>>

\* db["routingrule"].find(c): the documents equal to c on every key of c, in store order.
find_rules(rules, c) ==
    SelectSeq(rules, LAMBDA r :
        /\ (c.department = ANY \/ r.department = c.department)
        /\ (c.type_code = ANY \/ r.type_code = c.type_code))

\* (spend or 0)
or_zero(spend) == IF spend = <<>> THEN 0 ELSE spend[1]

\* Faulty variant: the estimate must exceed the threshold.
threshold_strict(rule, spend) ==
    rule.spend_threshold = <<>> \/ or_zero(spend) > rule.spend_threshold[1]

\* thr is None or (spend or 0) >= float(thr)
threshold_ok(rule, spend) ==
    rule.spend_threshold = <<>> \/ or_zero(spend) >= rule.spend_threshold[1]

RECURSIVE scan_candidates(_, _, _)
\* for c in candidates: for rule in find(c): first rule passing the threshold test.
scan_candidates(rules, cs, spend) ==
    IF cs = <<>> THEN <<>>
    ELSE LET hits == SelectSeq(find_rules(rules, Head(cs)), LAMBDA r : threshold_ok(r, spend))
         IN IF hits # <<>> THEN <<Head(hits)>> ELSE scan_candidates(rules, Tail(cs), spend)

\* <<>> is None, <<rule>> the selected rule.
select_routing_rule(department, type_code, spend) ==
    scan_candidates(routingrule, candidates(department, type_code), spend)

\* approvers = [a for a in rule["approver_emails"] if a] when a rule with approvers was found.
resolve_approvers(rule) ==
    IF rule # <<>> /\ rule[1].approver_emails # <<>>
        THEN SelectSeq(rule[1].approver_emails, LAMBDA a : a # "")
        ELSE <<>>

(* --------------------------- side channels ---------------------------- *)
\* Faulty variant: an upsert instead of an insert, so an entry equal to a stored one is not added.
log_audit_upsert(log, entity_id, action) ==
    LET doc == [entity |-> "justification", entity_id |-> entity_id, action |-> action]
    IN IF BagIn(doc, log) THEN log ELSE insert_one(log, doc)

\* log_audit(entity, entity_id, action, actor, details): one insert into auditlog.
log_audit(log, entity_id, action) ==
    insert_one(log, [entity |-> "justification", entity_id |-> entity_id, action |-> action])

send_email_stub(outbox, to, subject, html) ==
    insert_one(outbox, [to |-> to, subject |-> subject, html |-> html])

Request(op, target, reason, code) ==
    [op |-> op, target |-> target, reason |-> reason, code |-> code]

Idle == [pc |-> "idle", task_id |-> 0, jid |-> 0, remaining |-> 0]

(* ------------------------------- Init --------------------------------- *)
EmptyStore ==
    /\ justification = <<>>
    /\ approvaltask = <<>>
    /\ comment = <<>>
    /\ auditlog = EmptyBag
    /\ emailoutbox = EmptyBag
    /\ last = Request("none", 0, NULL, 0)
    /\ calls = [p \in {"p1", "p2"} |-> Idle]

\* A fresh database: no routing rule yet.
InitRouting == routingrule = <<>> /\ EmptyStore

\* A database in which an administrator has stored routing rules (POST /api/rules)
\* before the first submission.
SeedRules ==
    << [name |-> "R", department |-> "Eng", type_code |-> "CAPEX",
        spend_threshold |-> <<2>>, approver_emails |-> <<"a@x", "", "b@x">>],
       [name |-> "R", department |-> NULL, type_code |-> NULL,
        spend_threshold |-> <<1>>, approver_emails |-> <<"c@x">>] >>

Init == routingrule = SeedRules /\ EmptyStore

(* ------------------------------ handlers ------------------------------ *)
\* The model's cap on the append-only collections.
WithinBounds == BagCardinality(auditlog) < MaxAudit

requester_of(jid) == justification[jid].requester_email

\* POST /api/rules
create_rule(rule) ==
    IF rule.name = ""
    THEN /\ last' = Request("create_rule", 0, NULL, 400)
         /\ UNCHANGED <<store, calls>>
    ELSE /\ Len(routingrule) < MaxRules
         /\ routingrule' = Append(routingrule, rule)
         /\ last' = Request("create_rule", Len(routingrule) + 1, NULL, 200)
         /\ UNCHANGED <<justification, approvaltask, comment, auditlog, emailoutbox, calls>>

\* Faulty variant: step indices counted from 1.
new_tasks_one_based(jid, approvers) ==
    [idx \in 1..Len(approvers) |->
        [justification_id |-> jid, approver_email |-> approvers[idx],
         step_index |-> idx, status |-> STATUS_PENDING, requested_more_info |-> NULL]]

\* Faulty variant: every task of a submission gets step index 0.
new_tasks_same_step(jid, approvers) ==
    [idx \in 1..Len(approvers) |->
        [justification_id |-> jid, approver_email |-> approvers[idx],
         step_index |-> 0, status |-> STATUS_PENDING, requested_more_info |-> NULL]]

\* The approval tasks inserted for a new justification, one per approver, in list order.
new_tasks(jid, approvers) ==
    [idx \in 1..Len(approvers) |->
        [justification_id |-> jid, approver_email |-> approvers[idx],
         step_index |-> idx - 1, status |-> STATUS_PENDING, requested_more_info |-> NULL]]

\* Faulty variant: one notification per approver instead of one batch.
submission_emails_per_approver(outbox, jid, approvers, requester) ==
    LET each == outbox (+) [m \in {[to |-> <<approvers[i]>>, subject |-> "New approval request",
                                     html |-> jid] : i \in DOMAIN approvers} |->
                                Cardinality({i \in DOMAIN approvers : approvers[i] = m.to[1]})]
    IN send_email_stub(each, <<requester>>, "Submission received", jid)

\* The e-mails of a submission: the approvers' batch (if any approver) and the receipt.
submission_emails(outbox, jid, approvers, requester) ==
    LET batch == IF approvers # <<>>
                    THEN send_email_stub(outbox, approvers, "New approval request", jid)
                    ELSE outbox
    IN send_email_stub(batch, <<requester>>, "Submission received", jid)

\* POST /api/justifications
create_justification(payload) ==
    LET jid == Len(justification) + 1
        rule == select_routing_rule(payload.department, payload.type_code, payload.cost_estimate)
        approvers == resolve_approvers(rule)
    IN /\ Len(justification) < MaxJust
       /\ WithinBounds
       /\ justification' = Append(justification,
            [status |-> J_PENDING, department |-> payload.department,
             type_code |-> payload.type_code, cost_estimate |-> payload.cost_estimate,
             requester_email |-> payload.requester_email])
       /\ approvaltask' = approvaltask \o new_tasks(jid, approvers)
       /\ emailoutbox' = submission_emails(emailoutbox, jid, approvers, payload.requester_email)
       /\ auditlog' = log_audit(auditlog, jid, "CREATE")
       /\ last' = Request("create", jid, NULL, 200)
       /\ UNCHANGED <<routingrule, comment, calls>>

\* The justification's status after an approval left `remaining` tasks not Approved.
recompute_status(justs, jid, remaining) ==
    IF remaining = 0 THEN set_status(justs, jid, STATUS_APPROVED) ELSE justs

\* The final-approval e-mail, sent when no task remains.
final_email(outbox, jid, remaining) ==
    IF remaining = 0
        THEN send_email_stub(outbox, <<requester_of(jid)>>, "Final approval", jid)
        ELSE outbox

\* Faulty variant: a task is approved only once every task of a lower step index
\* of its justification is Approved; otherwise the request is refused.
approve_task_in_order(task_id) ==
    IF task_id \notin DOMAIN approvaltask
    THEN /\ last' = Request("approve", task_id, NULL, 404)
         /\ UNCHANGED <<store, calls>>
    ELSE LET jid == approvaltask[task_id].justification_id
             tasks1 == set_status(approvaltask, task_id, STATUS_APPROVED)
             remaining == count_not_approved(tasks1, jid)
         IN IF \E t \in DOMAIN approvaltask :
                    /\ approvaltask[t].justification_id = jid
                    /\ approvaltask[t].step_index < approvaltask[task_id].step_index
                    /\ approvaltask[t].status # STATUS_APPROVED
            THEN /\ last' = Request("approve", task_id, NULL, 409)
                 /\ UNCHANGED <<store, calls>>
            ELSE /\ WithinBounds
                 /\ approvaltask' = tasks1
                 /\ auditlog' = log_audit(auditlog, jid, "APPROVE")
                 /\ justification' = recompute_status(justification, jid, remaining)
                 /\ emailoutbox' = final_email(emailoutbox, jid, remaining)
                 /\ last' = Request("approve", task_id, NULL, 200)
                 /\ UNCHANGED <<routingrule, comment, calls>>

\* POST /api/approvals/{task_id}/approve
approve_task(task_id) ==
    IF task_id \notin DOMAIN approvaltask
    THEN /\ last' = Request("approve", task_id, NULL, 404)
         /\ UNCHANGED <<store, calls>>
    ELSE LET jid == approvaltask[task_id].justification_id
             tasks1 == set_status(approvaltask, task_id, STATUS_APPROVED)
             remaining == count_not_approved(tasks1, jid)
         IN /\ WithinBounds
            /\ approvaltask' = tasks1
            /\ auditlog' = log_audit(auditlog, jid, "APPROVE")
            /\ justification' = recompute_status(justification, jid, remaining)
            /\ emailoutbox' = final_email(emailoutbox, jid, remaining)
            /\ last' = Request("approve", task_id, NULL, 200)
            /\ UNCHANGED <<routingrule, comment, calls>>

\* Faulty variant: only an absent comment is refused (comment is None).
no_reason_none_only(text) == text = NULL

\* if not action.comment
no_reason(text) == text = NULL \/ text = ""

\* The two status writes of a rejection: the task, then the whole justification.
reject_tasks(tasks, task_id) == set_status(tasks, task_id, STATUS_REJECTED)

\* Faulty variant: the justification is rejected only when no task of it is still Pending.
reject_justification_when_settled(justs, jid) ==
    IF \E t \in DOMAIN approvaltask :
            approvaltask[t].justification_id = jid /\ approvaltask[t].status = STATUS_PENDING
                /\ approvaltask'[t].status = STATUS_PENDING
        THEN justs ELSE set_status(justs, jid, STATUS_REJECTED)

reject_justification(justs, jid) == set_status(justs, jid, STATUS_REJECTED)

\* POST /api/approvals/{task_id}/reject
reject_task(task_id, reason) ==
    IF no_reason(reason)
    THEN /\ last' = Request("reject", task_id, reason, 400)
         /\ UNCHANGED <<store, calls>>
    ELSE IF task_id \notin DOMAIN approvaltask
    THEN /\ last' = Request("reject", task_id, reason, 404)
         /\ UNCHANGED <<store, calls>>
    ELSE LET jid == approvaltask[task_id].justification_id
         IN /\ WithinBounds
            /\ approvaltask' = reject_tasks(approvaltask, task_id)
            /\ justification' = reject_justification(justification, jid)
            /\ auditlog' = log_audit(auditlog, jid, "REJECT")
            /\ emailoutbox' = send_email_stub(emailoutbox, <<requester_of(jid)>>, "Rejected", jid)
            /\ last' = Request("reject", task_id, reason, 200)
            /\ UNCHANGED <<routingrule, comment, calls>>

\* Faulty variant: update_many on the justification's tasks instead of update_one on the task.
request_info_all_tasks(tasks, task_id, reason) ==
    [t \in DOMAIN tasks |->
        IF tasks[t].justification_id = tasks[task_id].justification_id
            THEN [tasks[t] EXCEPT !.status = STATUS_NEEDS_INFO, !.requested_more_info = reason]
            ELSE tasks[t]]

\* Faulty variant: the status is set but the reason is not stored on the task.
request_info_task_without_reason(tasks, task_id, reason) ==
    [tasks EXCEPT ![task_id].status = STATUS_NEEDS_INFO]

\* update_one({"_id": task["_id"]}, {"$set": {"status": "NeedsMoreInfo", "requested_more_info": reason}})
request_info_task(tasks, task_id, reason) ==
    [tasks EXCEPT ![task_id].status = STATUS_NEEDS_INFO,
                  ![task_id].requested_more_info = reason]

\* RequestInfoAction.reason: str -- the body is refused (422) before the handler
\* runs when reason is missing; any string, the empty one too, is accepted.
valid_reason(reason) == reason # NULL

\* POST /api/approvals/{task_id}/request-info
request_info(task_id, reason) ==
    IF ~valid_reason(reason)
    THEN /\ last' = Request("request_info", task_id, reason, 422)
         /\ UNCHANGED <<store, calls>>
    ELSE IF task_id \notin DOMAIN approvaltask
    THEN /\ last' = Request("request_info", task_id, reason, 404)
         /\ UNCHANGED <<store, calls>>
    ELSE LET jid == approvaltask[task_id].justification_id
         IN /\ WithinBounds
            /\ approvaltask' = request_info_task(approvaltask, task_id, reason)
            /\ justification' = set_status(justification, jid, STATUS_NEEDS_INFO)
            /\ emailoutbox' = send_email_stub(emailoutbox, <<requester_of(jid)>>,
                                              "More information requested", reason)
            /\ auditlog' = log_audit(auditlog, jid, "REQUEST_INFO")
            /\ last' = Request("request_info", task_id, reason, 200)
            /\ UNCHANGED <<routingrule, comment, calls>>

\* Faulty variant: update_many without the justification_id filter.
resubmit_every_task(tasks, jid) ==
    [t \in DOMAIN tasks |->
        IF tasks[t].status = STATUS_NEEDS_INFO
            THEN [tasks[t] EXCEPT !.status = STATUS_PENDING]
            ELSE tasks[t]]

\* update_many({"justification_id": jid, "status": "NeedsMoreInfo"}, {"$set": {"status": "Pending"}})
resubmit_tasks(tasks, jid) ==
    [t \in DOMAIN tasks |->
        IF tasks[t].justification_id = jid /\ tasks[t].status = STATUS_NEEDS_INFO
            THEN [tasks[t] EXCEPT !.status = STATUS_PENDING]
            ELSE tasks[t]]

\* POST /api/justifications/{jid}/resubmit
resubmit(jid) ==
    IF jid \notin DOMAIN justification
    THEN /\ last' = Request("resubmit", jid, NULL, 404)
         /\ UNCHANGED <<store, calls>>
    ELSE /\ WithinBounds
         /\ justification' = set_status(justification, jid, J_PENDING)
         /\ approvaltask' = resubmit_tasks(approvaltask, jid)
         /\ auditlog' = log_audit(auditlog, jid, "RESUBMIT")
         /\ emailoutbox' = send_email_stub(emailoutbox, <<"actor@x">>, "Resubmitted", NULL)
         /\ last' = Request("resubmit", jid, NULL, 200)
         /\ UNCHANGED <<routingrule, comment, calls>>

\* Faulty variant: the comment is stored without looking the justification up.
add_comment_unchecked(jid) ==
    /\ WithinBounds
    /\ comment' = Append(comment, [justification_id |-> jid])
    /\ auditlog' = log_audit(auditlog, jid, "COMMENT")
    /\ last' = Request("comment", jid, NULL, 200)
    /\ UNCHANGED <<routingrule, justification, approvaltask, emailoutbox, calls>>

\* POST /api/justifications/{jid}/comments
add_comment(jid) ==
    IF jid \notin DOMAIN justification
    THEN /\ last' = Request("comment", jid, NULL, 404)
         /\ UNCHANGED <<store, calls>>
    ELSE /\ WithinBounds
         /\ comment' = Append(comment, [justification_id |-> jid])
         /\ auditlog' = log_audit(auditlog, jid, "COMMENT")
         /\ last' = Request("comment", jid, NULL, 200)
         /\ UNCHANGED <<routingrule, justification, approvaltask, emailoutbox, calls>>

(* -------------------------- request inputs ---------------------------- *)
\* The rules an administrator posts: every combination of the two filters and
\* the threshold, and one document without a name.
RuleDocs ==
    [name : {"R"}, department : {"Eng", "Ops", NULL}, type_code : {"CAPEX", NULL},
     spend_threshold : {<<>>, <<1>>, <<2>>}, approver_emails : {<<"a@x", "", "b@x">>}]
    \cup {[name |-> "", department |-> NULL, type_code |-> NULL,
           spend_threshold |-> <<>>, approver_emails |-> <<>>]}

Payloads ==
    [department : {"Eng"}, type_code : {"CAPEX"}, cost_estimate : Spends,
     requester_email : {Requester}]

\* The ids a request can name: every stored document and one that is not stored.
TaskIds == 1..(Len(approvaltask) + 1)

JustIds == 1..(Len(justification) + 1)

Comments == {NULL, "", "why"}

Reasons == {NULL, "", "why"}

Next ==
    \/ \E payload \in Payloads : create_justification(payload)
    \/ \E t \in TaskIds : approve_task(t)
    \/ \E t \in TaskIds, c \in Comments : reject_task(t, c)
    \/ \E t \in TaskIds, r \in Reasons : request_info(t, r)
    \/ \E j \in JustIds : resubmit(j)
    \/ \E j \in JustIds : add_comment(j)

Spec == Init /\ [][Next]_vars

NextRouting ==
    \/ \E rule \in RuleDocs : create_rule(rule)
    \/ \E payload \in Payloads : create_justification(payload)

SpecRouting == InitRouting /\ [][NextRouting]_vars

(* ---------------- approve_task, one store operation at a time ---------- *)
\* Two requests p1, p2 are served concurrently; each runs approve_task once,
\* and every store operation of the handler is one step.
Procs == DOMAIN calls

\* task = db["approvaltask"].find_one({"_id": ObjectId(task_id)})
approve_find(p, task_id) ==
    /\ calls[p].pc = "idle"
    /\ IF task_id \in DOMAIN approvaltask
       THEN /\ calls' = [calls EXCEPT ![p] = [pc |-> "update", task_id |-> task_id,
                            jid |-> approvaltask[task_id].justification_id, remaining |-> 0]]
            /\ UNCHANGED last
       ELSE /\ calls' = [calls EXCEPT ![p].pc = "done", ![p].task_id = task_id]
            /\ last' = Request("approve", task_id, NULL, 404)
    /\ UNCHANGED store

\* db["approvaltask"].update_one(..., {"$set": {"status": "Approved"}})
approve_update(p) ==
    /\ calls[p].pc = "update"
    /\ approvaltask' = set_status(approvaltask, calls[p].task_id, STATUS_APPROVED)
    /\ calls' = [calls EXCEPT ![p].pc = "audit"]
    /\ UNCHANGED <<routingrule, justification, comment, auditlog, emailoutbox, last>>

\* log_audit("justification", jid, "APPROVE", ...)
approve_audit(p) ==
    /\ calls[p].pc = "audit"
    /\ auditlog' = log_audit(auditlog, calls[p].jid, "APPROVE")
    /\ calls' = [calls EXCEPT ![p].pc = "count"]
    /\ UNCHANGED <<routingrule, justification, approvaltask, comment, emailoutbox, last>>

\* remaining = db["approvaltask"].count_documents(...); if remaining == 0: ... return
approve_count(p) ==
    /\ calls[p].pc = "count"
    /\ LET remaining == count_not_approved(approvaltask, calls[p].jid)
       IN IF remaining = 0
          THEN /\ calls' = [calls EXCEPT ![p].pc = "write", ![p].remaining = remaining]
               /\ UNCHANGED last
          ELSE /\ calls' = [calls EXCEPT ![p].pc = "done", ![p].remaining = remaining]
               /\ last' = Request("approve", calls[p].task_id, NULL, 200)
    /\ UNCHANGED store

\* db["justification"].update_one(..., {"$set": {"status": "Approved"}})
approve_write(p) ==
    /\ calls[p].pc = "write"
    /\ justification' = recompute_status(justification, calls[p].jid, calls[p].remaining)
    /\ calls' = [calls EXCEPT ![p].pc = "notify"]
    /\ UNCHANGED <<routingrule, approvaltask, comment, auditlog, emailoutbox, last>>

\* just = find_one(...); send_email_stub([requester], "Final approval", ...); return
approve_notify(p) ==
    /\ calls[p].pc = "notify"
    /\ emailoutbox' = final_email(emailoutbox, calls[p].jid, calls[p].remaining)
    /\ calls' = [calls EXCEPT ![p].pc = "done"]
    /\ last' = Request("approve", calls[p].task_id, NULL, 200)
    /\ UNCHANGED <<routingrule, justification, approvaltask, comment, auditlog>>

NextConc ==
    \/ \E payload \in Payloads : create_justification(payload)
    \/ \E p \in Procs, t \in TaskIds : approve_find(p, t)
    \/ \E p \in Procs : approve_update(p)
    \/ \E p \in Procs : approve_audit(p)
    \/ \E p \in Procs : approve_count(p)
    \/ \E p \in Procs : approve_write(p)
    \/ \E p \in Procs : approve_notify(p)

SpecConc == Init /\ [][NextConc]_vars

(* ------------- every handler, one store operation at a time ----------- *)
\* The requests p1, p2 may also run reject_task, request_info, resubmit or
\* create_justification; as with approve_task every store operation is one step.
\* A call keeps its local variables (reason, payload, approvers, idx) in its record.
StepReasons == {"why"}

\* if not action.comment: raise 400; task = find_one(...); if not task: raise 404
reject_find(p, task_id, reason) ==
    /\ calls[p].pc = "idle"
    /\ IF no_reason(reason)
       THEN /\ calls' = [calls EXCEPT ![p].pc = "done", ![p].task_id = task_id]
            /\ last' = Request("reject", task_id, reason, 400)
       ELSE IF task_id \notin DOMAIN approvaltask
       THEN /\ calls' = [calls EXCEPT ![p].pc = "done", ![p].task_id = task_id]
            /\ last' = Request("reject", task_id, reason, 404)
       ELSE /\ calls' = [calls EXCEPT ![p] = [pc |-> "rj_task", task_id |-> task_id,
                            jid |-> approvaltask[task_id].justification_id,
                            remaining |-> 0, reason |-> reason]]
            /\ UNCHANGED last
    /\ UNCHANGED store

\* db["approvaltask"].update_one(..., {"$set": {"status": "Rejected"}})
reject_update(p) ==
    /\ calls[p].pc = "rj_task"
    /\ approvaltask' = reject_tasks(approvaltask, calls[p].task_id)
    /\ calls' = [calls EXCEPT ![p].pc = "rj_just"]
    /\ UNCHANGED <<routingrule, justification, comment, auditlog, emailoutbox, last>>

\* db["justification"].update_one(..., {"$set": {"status": "Rejected"}})
reject_write(p) ==
    /\ calls[p].pc = "rj_just"
    /\ justification' = reject_justification(justification, calls[p].jid)
    /\ calls' = [calls EXCEPT ![p].pc = "rj_audit"]
    /\ UNCHANGED <<routingrule, approvaltask, comment, auditlog, emailoutbox, last>>

\* log_audit("justification", jid, "REJECT", ...)
reject_audit(p) ==
    /\ calls[p].pc = "rj_audit"
    /\ auditlog' = log_audit(auditlog, calls[p].jid, "REJECT")
    /\ calls' = [calls EXCEPT ![p].pc = "rj_mail"]
    /\ UNCHANGED <<routingrule, justification, approvaltask, comment, emailoutbox, last>>

\* just = find_one(...); send_email_stub([requester], "Rejected", ...); return
reject_notify(p) ==
    /\ calls[p].pc = "rj_mail"
    /\ emailoutbox' = send_email_stub(emailoutbox, <<requester_of(calls[p].jid)>>,
                                      "Rejected", calls[p].jid)
    /\ calls' = [calls EXCEPT ![p].pc = "done"]
    /\ last' = Request("reject", calls[p].task_id, calls[p].reason, 200)
    /\ UNCHANGED <<routingrule, justification, approvaltask, comment, auditlog>>

\* task = find_one(...); if not task: raise 404
request_info_find(p, task_id, reason) ==
    /\ calls[p].pc = "idle"
    /\ valid_reason(reason)
    /\ IF task_id \notin DOMAIN approvaltask
       THEN /\ calls' = [calls EXCEPT ![p].pc = "done", ![p].task_id = task_id]
            /\ last' = Request("request_info", task_id, reason, 404)
       ELSE /\ calls' = [calls EXCEPT ![p] = [pc |-> "ri_task", task_id |-> task_id,
                            jid |-> approvaltask[task_id].justification_id,
                            remaining |-> 0, reason |-> reason]]
            /\ UNCHANGED last
    /\ UNCHANGED store

\* db["approvaltask"].update_one(..., {"$set": {"status": "NeedsMoreInfo", ...}})
request_info_update(p) ==
    /\ calls[p].pc = "ri_task"
    /\ approvaltask' = request_info_task(approvaltask, calls[p].task_id, calls[p].reason)
    /\ calls' = [calls EXCEPT ![p].pc = "ri_just"]
    /\ UNCHANGED <<routingrule, justification, comment, auditlog, emailoutbox, last>>

\* db["justification"].update_one(..., {"$set": {"status": "NeedsMoreInfo"}})
request_info_write(p) ==
    /\ calls[p].pc = "ri_just"
    /\ justification' = set_status(justification, calls[p].jid, STATUS_NEEDS_INFO)
    /\ calls' = [calls EXCEPT ![p].pc = "ri_mail"]
    /\ UNCHANGED <<routingrule, approvaltask, comment, auditlog, emailoutbox, last>>

\* just = find_one(...); send_email_stub([requester], "More information requested", ...)
request_info_notify(p) ==
    /\ calls[p].pc = "ri_mail"
    /\ emailoutbox' = send_email_stub(emailoutbox, <<requester_of(calls[p].jid)>>,
                                      "More information requested", calls[p].reason)
    /\ calls' = [calls EXCEPT ![p].pc = "ri_audit"]
    /\ UNCHANGED <<routingrule, justification, approvaltask, comment, auditlog, last>>

\* log_audit("justification", jid, "REQUEST_INFO", ...); return
request_info_audit(p) ==
    /\ calls[p].pc = "ri_audit"
    /\ auditlog' = log_audit(auditlog, calls[p].jid, "REQUEST_INFO")
    /\ calls' = [calls EXCEPT ![p].pc = "done"]
    /\ last' = Request("request_info", calls[p].task_id, calls[p].reason, 200)
    /\ UNCHANGED <<routingrule, justification, approvaltask, comment, emailoutbox>>

\* just = find_one(...); if not just: raise 404
resubmit_find(p, jid) ==
    /\ calls[p].pc = "idle"
    /\ IF jid \notin DOMAIN justification
       THEN /\ calls' = [calls EXCEPT ![p].pc = "done", ![p].jid = jid]
            /\ last' = Request("resubmit", jid, NULL, 404)
       ELSE /\ calls' = [calls EXCEPT ![p].pc = "rs_just", ![p].jid = jid]
            /\ UNCHANGED last
    /\ UNCHANGED store

\* db["justification"].update_one(..., {"$set": {"status": "PendingApproval"}})
resubmit_write(p) ==
    /\ calls[p].pc = "rs_just"
    /\ justification' = set_status(justification, calls[p].jid, J_PENDING)
    /\ calls' = [calls EXCEPT ![p].pc = "rs_tasks"]
    /\ UNCHANGED <<routingrule, approvaltask, comment, auditlog, emailoutbox, last>>

\* db["approvaltask"].update_many({... "status": "NeedsMoreInfo"}, {"$set": {"status": "Pending"}})
resubmit_update(p) ==
    /\ calls[p].pc = "rs_tasks"
    /\ approvaltask' = resubmit_tasks(approvaltask, calls[p].jid)
    /\ calls' = [calls EXCEPT ![p].pc = "rs_audit"]
    /\ UNCHANGED <<routingrule, justification, comment, auditlog, emailoutbox, last>>

\* log_audit("justification", jid, "RESUBMIT", ...)
resubmit_audit(p) ==
    /\ calls[p].pc = "rs_audit"
    /\ auditlog' = log_audit(auditlog, calls[p].jid, "RESUBMIT")
    /\ calls' = [calls EXCEPT ![p].pc = "rs_mail"]
    /\ UNCHANGED <<routingrule, justification, approvaltask, comment, emailoutbox, last>>

\* send_email_stub([payload.actor_email], "Resubmitted", ...); return
resubmit_notify(p) ==
    /\ calls[p].pc = "rs_mail"
    /\ emailoutbox' = send_email_stub(emailoutbox, <<"actor@x">>, "Resubmitted", NULL)
    /\ calls' = [calls EXCEPT ![p].pc = "done"]
    /\ last' = Request("resubmit", calls[p].jid, NULL, 200)
    /\ UNCHANGED <<routingrule, justification, approvaltask, comment, auditlog>>

\* jid = db["justification"].insert_one(data).inserted_id
submit_insert(p, payload) ==
    /\ calls[p].pc = "idle"
    /\ Len(justification) < MaxJust
    /\ justification' = Append(justification,
            [status |-> J_PENDING, department |-> payload.department,
             type_code |-> payload.type_code, cost_estimate |-> payload.cost_estimate,
             requester_email |-> payload.requester_email])
    /\ calls' = [calls EXCEPT ![p] = [pc |-> "sub_route", task_id |-> 0,
                    jid |-> Len(justification) + 1, remaining |-> 0,
                    payload |-> payload, approvers |-> <<>>, idx |-> 0]]
    /\ UNCHANGED <<routingrule, approvaltask, comment, auditlog, emailoutbox, last>>

\* rule = select_routing_rule(...); approvers = [a for a in rule["approver_emails"] if a]
submit_route(p) ==
    /\ calls[p].pc = "sub_route"
    /\ LET rule == select_routing_rule(calls[p].payload.department,
                        calls[p].payload.type_code, calls[p].payload.cost_estimate)
           approvers == resolve_approvers(rule)
       IN calls' = [calls EXCEPT ![p].approvers = approvers,
                        ![p].pc = IF approvers = <<>> THEN "sub_receipt" ELSE "sub_task"]
    /\ UNCHANGED <<store, last>>

\* for idx, email in enumerate(approvers): db["approvaltask"].insert_one({...})
submit_task(p) ==
    /\ calls[p].pc = "sub_task"
    /\ LET idx == calls[p].idx
           approvers == calls[p].approvers
       IN /\ approvaltask' = Append(approvaltask, new_tasks(calls[p].jid, approvers)[idx + 1])
          /\ calls' = [calls EXCEPT ![p].idx = idx + 1,
                        ![p].pc = IF idx + 1 = Len(approvers) THEN "sub_batch" ELSE "sub_task"]
    /\ UNCHANGED <<routingrule, justification, comment, auditlog, emailoutbox, last>>

\* if approvers: send_email_stub(approvers, "New approval request", ...)
submit_batch(p) ==
    /\ calls[p].pc = "sub_batch"
    /\ emailoutbox' = send_email_stub(emailoutbox, calls[p].approvers,
                                      "New approval request", calls[p].jid)
    /\ calls' = [calls EXCEPT ![p].pc = "sub_receipt"]
    /\ UNCHANGED <<routingrule, justification, approvaltask, comment, auditlog, last>>

\* send_email_stub([payload.requester_email], "Submission received", ...)
submit_receipt(p) ==
    /\ calls[p].pc = "sub_receipt"
    /\ emailoutbox' = send_email_stub(emailoutbox, <<calls[p].payload.requester_email>>,
                                      "Submission received", calls[p].jid)
    /\ calls' = [calls EXCEPT ![p].pc = "sub_audit"]
    /\ UNCHANGED <<routingrule, justification, approvaltask, comment, auditlog, last>>

\* log_audit("justification", jid_str, "CREATE", ...); return {"id": jid_str}
submit_audit(p) ==
    /\ calls[p].pc = "sub_audit"
    /\ auditlog' = log_audit(auditlog, calls[p].jid, "CREATE")
    /\ calls' = [calls EXCEPT ![p].pc = "done"]
    /\ last' = Request("create", calls[p].jid, NULL, 200)
    /\ UNCHANGED <<routingrule, justification, approvaltask, comment, emailoutbox>>

NextSteps ==
    \/ \E payload \in Payloads : create_justification(payload)
    \/ \E p \in Procs, t \in TaskIds : approve_find(p, t)
    \/ \E p \in Procs : approve_update(p)
    \/ \E p \in Procs : approve_audit(p)
    \/ \E p \in Procs : approve_count(p)
    \/ \E p \in Procs : approve_write(p)
    \/ \E p \in Procs : approve_notify(p)
    \/ \E p \in Procs, t \in TaskIds, r \in StepReasons : reject_find(p, t, r)
    \/ \E p \in Procs : reject_update(p)
    \/ \E p \in Procs : reject_write(p)
    \/ \E p \in Procs : reject_audit(p)
    \/ \E p \in Procs : reject_notify(p)
    \/ \E p \in Procs, t \in TaskIds, r \in StepReasons : request_info_find(p, t, r)
    \/ \E p \in Procs : request_info_update(p)
    \/ \E p \in Procs : request_info_write(p)
    \/ \E p \in Procs : request_info_notify(p)
    \/ \E p \in Procs : request_info_audit(p)
    \/ \E p \in Procs, j \in JustIds : resubmit_find(p, j)
    \/ \E p \in Procs : resubmit_write(p)
    \/ \E p \in Procs : resubmit_update(p)
    \/ \E p \in Procs : resubmit_audit(p)
    \/ \E p \in Procs : resubmit_notify(p)
    \/ \E p \in Procs, payload \in Payloads : submit_insert(p, payload)
    \/ \E p \in Procs : submit_route(p)
    \/ \E p \in Procs : submit_task(p)
    \/ \E p \in Procs : submit_batch(p)
    \/ \E p \in Procs : submit_receipt(p)
    \/ \E p \in Procs : submit_audit(p)

SpecSteps == Init /\ [][NextSteps]_vars

(* ------------- handlers whose audit or e-mail insert raises ------------ *)
\* log_audit and send_email_stub call insert_one with no try/except, and no
\* handler catches around them: when the insert raises, the handler stops at
\* that line, the writes made before it stay, those after it are not made, and
\* the request is answered 500. `point` names the insert that raises. One
\* failure is followed to the state it leaves behind, and the run ends there.
NoFailureYet == last.code # 500

\* create_justification: "batch" (line 196), "receipt" (line 197), "audit" (line 199).
create_justification_fails(payload, point) ==
    LET jid == Len(justification) + 1
        rule == select_routing_rule(payload.department, payload.type_code, payload.cost_estimate)
        approvers == resolve_approvers(rule)
        batch == IF approvers # <<>>
                    THEN send_email_stub(emailoutbox, approvers, "New approval request", jid)
                    ELSE emailoutbox
    IN /\ Len(justification) < MaxJust
       /\ point = "batch" => approvers # <<>>
       /\ justification' = Append(justification,
            [status |-> J_PENDING, department |-> payload.department,
             type_code |-> payload.type_code, cost_estimate |-> payload.cost_estimate,
             requester_email |-> payload.requester_email])
       /\ approvaltask' = approvaltask \o new_tasks(jid, approvers)
       /\ emailoutbox' = CASE point = "batch" -> emailoutbox
                           [] point = "receipt" -> batch
                           [] point = "audit" ->
                                submission_emails(emailoutbox, jid, approvers,
                                                  payload.requester_email)
       /\ last' = Request("create", jid, NULL, 500)
       /\ UNCHANGED <<routingrule, comment, auditlog, calls>>

\* approve_task: "audit" (line 253, before the recount), "final" (line 260).
approve_task_fails(task_id, point) ==
    /\ task_id \in DOMAIN approvaltask
    /\ LET jid == approvaltask[task_id].justification_id
           tasks1 == set_status(approvaltask, task_id, STATUS_APPROVED)
           remaining == count_not_approved(tasks1, jid)
       IN /\ approvaltask' = tasks1
          /\ IF point = "audit"
             THEN UNCHANGED <<auditlog, justification>>
             ELSE /\ remaining = 0
                  /\ WithinBounds
                  /\ auditlog' = log_audit(auditlog, jid, "APPROVE")
                  /\ justification' = recompute_status(justification, jid, remaining)
    /\ last' = Request("approve", task_id, NULL, 500)
    /\ UNCHANGED <<routingrule, comment, emailoutbox, calls>>

\* reject_task: "audit" (line 275), "email" (line 278).
reject_task_fails(task_id, reason, point) ==
    /\ ~no_reason(reason)
    /\ task_id \in DOMAIN approvaltask
    /\ LET jid == approvaltask[task_id].justification_id
       IN /\ approvaltask' = reject_tasks(approvaltask, task_id)
          /\ justification' = reject_justification(justification, jid)
          /\ IF point = "audit"
             THEN UNCHANGED auditlog
             ELSE /\ WithinBounds
                  /\ auditlog' = log_audit(auditlog, jid, "REJECT")
    /\ last' = Request("reject", task_id, reason, 500)
    /\ UNCHANGED <<routingrule, comment, emailoutbox, calls>>

\* request_info: "email" (line 292), "audit" (line 294).
request_info_fails(task_id, reason, point) ==
    /\ valid_reason(reason)
    /\ task_id \in DOMAIN approvaltask
    /\ LET jid == approvaltask[task_id].justification_id
       IN /\ approvaltask' = request_info_task(approvaltask, task_id, reason)
          /\ justification' = set_status(justification, jid, STATUS_NEEDS_INFO)
          /\ emailoutbox' = IF point = "email"
                THEN emailoutbox
                ELSE send_email_stub(emailoutbox, <<requester_of(jid)>>,
                                     "More information requested", reason)
    /\ last' = Request("request_info", task_id, reason, 500)
    /\ UNCHANGED <<routingrule, comment, auditlog, calls>>

\* resubmit: "audit" (line 306), "email" (line 307).
resubmit_fails(jid, point) ==
    /\ jid \in DOMAIN justification
    /\ justification' = set_status(justification, jid, J_PENDING)
    /\ approvaltask' = resubmit_tasks(approvaltask, jid)
    /\ IF point = "audit"
       THEN UNCHANGED auditlog
       ELSE /\ WithinBounds
            /\ auditlog' = log_audit(auditlog, jid, "RESUBMIT")
    /\ last' = Request("resubmit", jid, NULL, 500)
    /\ UNCHANGED <<routingrule, comment, emailoutbox, calls>>

NextFails ==
    \/ NoFailureYet /\ \E payload \in Payloads : create_justification(payload)
    \/ NoFailureYet /\ \E t \in TaskIds : approve_task(t)
    \/ NoFailureYet /\ \E t \in TaskIds, c \in Comments : reject_task(t, c)
    \/ NoFailureYet /\ \E t \in TaskIds, r \in Reasons : request_info(t, r)
    \/ NoFailureYet /\ \E j \in JustIds : resubmit(j)
    \/ NoFailureYet /\ \E j \in JustIds : add_comment(j)
    \/ NoFailureYet /\ \E payload \in Payloads, point \in {"batch", "receipt", "audit"} :
            create_justification_fails(payload, point)
    \/ NoFailureYet /\ \E t \in TaskIds, point \in {"audit", "final"} :
            approve_task_fails(t, point)
    \/ NoFailureYet /\ \E t \in TaskIds, c \in Comments, point \in {"audit", "email"} :
            reject_task_fails(t, c, point)
    \/ NoFailureYet /\ \E t \in TaskIds, r \in Reasons, point \in {"email", "audit"} :
            request_info_fails(t, r, point)
    \/ NoFailureYet /\ \E j \in JustIds, point \in {"audit", "email"} :
            resubmit_fails(j, point)

SpecFails == Init /\ [][NextFails]_vars

(* ============================ properties ============================== *)
TasksOf(tasks, jid) == {t \in DOMAIN tasks : tasks[t].justification_id = jid}

AuditCount(jid, action) ==
    CopiesIn([entity |-> "justification", entity_id |-> jid, action |-> action], auditlog)

FinalApprovals(jid) ==
    CopiesIn([to |-> <<requester_of(jid)>>, subject |-> "Final approval", html |-> jid],
             emailoutbox)

\* The approvers a submission resolves to: the non-empty entries of the approver
\* list of the rule the resolver selects for the stored justification, none if no rule.
ResolvedApprovers(doc) ==
    LET rule == select_routing_rule(doc.department, doc.type_code, doc.cost_estimate)
    IN IF rule = <<>> THEN <<>>
       ELSE LET emails == rule[1].approver_emails
                keep == {i \in DOMAIN emails : emails[i] # ""}
                nth[k \in 0..Len(emails)] ==
                    IF k = 0 THEN 0 ELSE CHOOSE i \in keep : i > nth[k - 1] /\
                                            \A h \in keep : h > nth[k - 1] => i <= h
            IN [k \in 1..Cardinality(keep) |-> emails[nth[k]]]

\* What a Submit step must do (C1).
C1_SubmitStep ==
    last'.op = "create" =>
        LET jid == Len(justification) + 1
            old == Len(approvaltask)
        IN /\ Len(justification') = jid
           /\ last'.target = jid
           /\ justification'[jid].status = J_PENDING
           /\ LET approvers == ResolvedApprovers(justification'[jid])
                  N == Len(approvers)
              IN /\ Len(approvaltask') = old + N
                 /\ \A t \in 1..old : approvaltask'[t] = approvaltask[t]
                 /\ TasksOf(approvaltask', jid) = (old + 1)..(old + N)
                 /\ \A k \in 1..N :
                        /\ approvaltask'[old + k].approver_email = approvers[k]
                        /\ approvaltask'[old + k].step_index = k - 1
                        /\ approvaltask'[old + k].status = STATUS_PENDING

\* C1: a Submit step appends one justification in PendingApproval and, for the N
\* approvers its routing resolves to, exactly N tasks of that justification:
\* the k-th of them for the k-th approver, with step index k-1 and status Pending;
\* no stored task changes.
C1_Submit == [][C1_SubmitStep]_vars

\* C1 witness: a submission has just created two tasks, steps 0 and 1, from a rule
\* whose approver list has three entries, one of them empty.
C1_Witness ==
    /\ last.op = "create"
    /\ LET ts == TasksOf(approvaltask, last.target)
       IN /\ Cardinality(ts) = 2
          /\ {approvaltask[t].step_index : t \in ts} = {0, 1}
          /\ \A t \in ts : approvaltask[t].status = STATUS_PENDING
    /\ Len(select_routing_rule(justification[last.target].department,
                               justification[last.target].type_code,
                               justification[last.target].cost_estimate)[1].approver_emails) = 3

\* Only Submit and Approve have acted on the justification.
OnlyApproved(jid) ==
    \A a \in {"REJECT", "REQUEST_INFO", "RESUBMIT"} : AuditCount(jid, a) = 0

\* C2 (as claimed): once Approve actions alone have approved every task of a
\* justification with at least one task, it is Approved and the final-approval
\* notification has been enqueued exactly once, however often tasks were approved.
C2_ApprovedExactlyOnce ==
    \A jid \in DOMAIN justification :
        (/\ TasksOf(approvaltask, jid) # {}
         /\ OnlyApproved(jid)
         /\ \A t \in TasksOf(approvaltask, jid) : approvaltask[t].status = STATUS_APPROVED)
        => /\ justification[jid].status = STATUS_APPROVED
           /\ FinalApprovals(jid) = 1

\* C3 (as claimed): when the two concurrent Approve calls, on two different tasks
\* that are the only tasks of one justification, have both returned, the
\* justification is Approved and exactly one final-approval notification is enqueued.
C3_OneFinalNotification ==
    (/\ calls["p1"].pc = "done" /\ calls["p2"].pc = "done"
     /\ calls["p1"].task_id # calls["p2"].task_id
     /\ calls["p1"].task_id \in DOMAIN approvaltask
     /\ calls["p2"].task_id \in DOMAIN approvaltask
     /\ calls["p1"].jid = calls["p2"].jid
     /\ TasksOf(approvaltask, calls["p1"].jid) = {calls["p1"].task_id, calls["p2"].task_id})
    => /\ justification[calls["p1"].jid].status = STATUS_APPROVED
       /\ FinalApprovals(calls["p1"].jid) = 1

\* Every stored task other than `task_id` is the same document after the step.
OtherTasksKept(task_id) ==
    /\ DOMAIN approvaltask' = DOMAIN approvaltask
    /\ \A t \in DOMAIN approvaltask : t # task_id => approvaltask'[t] = approvaltask[t]

\* What a Reject step with a reason on a stored task must do (C4).
C4_RejectStep ==
    (last'.op = "reject" /\ last'.reason \notin {NULL, ""}
        /\ last'.target \in DOMAIN approvaltask) =>
        LET t == last'.target
            jid == approvaltask[t].justification_id
        IN /\ last'.code = 200
           /\ approvaltask'[t].status = STATUS_REJECTED
           /\ justification'[jid].status = STATUS_REJECTED
           /\ OtherTasksKept(t)

\* C4: a Reject step with a non-empty reason on a stored task leaves that task
\* Rejected and its justification Rejected, whatever the other tasks' statuses,
\* and changes no other task.
C4_Reject == [][C4_RejectStep]_vars

\* C4 witness: a task has just been rejected while another task of the same
\* justification is still Pending, and the justification is Rejected.
C4_Witness ==
    /\ last.op = "reject" /\ last.code = 200
    /\ approvaltask[last.target].status = STATUS_REJECTED
    /\ justification[approvaltask[last.target].justification_id].status = STATUS_REJECTED
    /\ \E t \in TasksOf(approvaltask, approvaltask[last.target].justification_id) :
            t # last.target /\ approvaltask[t].status = STATUS_PENDING

\* What a Reject step without a reason must do (C5).
C5_RejectNoReasonStep ==
    (last'.op = "reject" /\ last'.reason \in {NULL, ""}) =>
        /\ last'.code = 400
        /\ UNCHANGED store

\* C5: a Reject step whose comment is absent or empty answers 400 and leaves every
\* collection as it was, whether or not the task id names a stored task.
C5_RejectNoReason == [][C5_RejectNoReasonStep]_vars

\* C5 witness: a Reject with an empty comment on a stored Pending task was answered
\* 400, and the task is still Pending.
C5_Witness ==
    /\ last.op = "reject" /\ last.reason = "" /\ last.code = 400
    /\ last.target \in DOMAIN approvaltask
    /\ approvaltask[last.target].status = STATUS_PENDING

\* What a RequestInfo step on a stored task must do (C6).
C6_RequestInfoStep ==
    (last'.op = "request_info" /\ last'.reason # NULL
        /\ last'.target \in DOMAIN approvaltask) =>
        LET t == last'.target
            jid == approvaltask[t].justification_id
        IN /\ approvaltask'[t].status = STATUS_NEEDS_INFO
           /\ approvaltask'[t].requested_more_info = last'.reason
           /\ justification'[jid].status = STATUS_NEEDS_INFO
           /\ OtherTasksKept(t)

\* C6: a RequestInfo step (a request whose body carries a reason) on a stored task leaves that task NeedsMoreInfo with the
\* reason stored on it and its justification NeedsMoreInfo, and changes no other
\* task, of this or of any other justification.
C6_RequestInfo == [][C6_RequestInfoStep]_vars

\* C6 witness: information has just been requested on one task while the other
\* task of the same justification is Approved and a second justification has a
\* Pending task.
C6_Witness ==
    /\ last.op = "request_info" /\ last.code = 200
    /\ approvaltask[last.target].status = STATUS_NEEDS_INFO
    /\ approvaltask[last.target].requested_more_info = "why"
    /\ \E t \in TasksOf(approvaltask, approvaltask[last.target].justification_id) :
            approvaltask[t].status = STATUS_APPROVED
    /\ \E t \in DOMAIN approvaltask :
            /\ approvaltask[t].justification_id # approvaltask[last.target].justification_id
            /\ approvaltask[t].status = STATUS_PENDING

\* What a Resubmit step on a stored justification must do (C7).
C7_ResubmitStep ==
    (last'.op = "resubmit" /\ last'.target \in DOMAIN justification) =>
        LET jid == last'.target
        IN /\ last'.code = 200
           /\ justification'[jid].status = J_PENDING
           /\ DOMAIN approvaltask' = DOMAIN approvaltask
           /\ \A t \in DOMAIN approvaltask :
                IF approvaltask[t].justification_id = jid
                        /\ approvaltask[t].status = STATUS_NEEDS_INFO
                THEN /\ approvaltask'[t].status = STATUS_PENDING
                     /\ approvaltask'[t].justification_id = jid
                     /\ approvaltask'[t].step_index = approvaltask[t].step_index
                     /\ approvaltask'[t].approver_email = approvaltask[t].approver_email
                ELSE approvaltask'[t].status = approvaltask[t].status

\* C7: a Resubmit step on a stored justification leaves it PendingApproval, turns
\* exactly its NeedsMoreInfo tasks to Pending, and keeps every other task (its
\* Approved, Rejected and Pending ones, and all tasks of other justifications).
C7_Resubmit == [][C7_ResubmitStep]_vars

\* C7 witness: a justification has just been resubmitted; its task that had asked
\* for information is Pending again and its other task is still Approved.
C7_Witness ==
    /\ last.op = "resubmit" /\ last.code = 200
    /\ justification[last.target].status = J_PENDING
    /\ \E t \in TasksOf(approvaltask, last.target) :
            /\ approvaltask[t].status = STATUS_PENDING
            /\ approvaltask[t].requested_more_info # NULL
    /\ \E t \in TasksOf(approvaltask, last.target) :
            approvaltask[t].status = STATUS_APPROVED

(* ------------------------------ routing ------------------------------- *)
\* The requests the resolver is asked about: departments and types with and
\* without stored rules, estimates absent, below, at and above the thresholds.
ResolveDepartments == {"Eng", "Ops"}

ResolveTypes == {"CAPEX", "OPEX"}

ResolveSpends == {<<>>, <<0>>, <<1>>, <<2>>, <<3>>}

\* Rule r answers the k-th filter tier of a request with department X and type Y.
InTier(k, r, X, Y) ==
    CASE k = 1 -> r.department = X /\ r.type_code = Y
      [] k = 2 -> r.type_code = Y
      [] k = 3 -> r.department = X
      [] k = 4 -> TRUE

\* The claims' threshold rule: no threshold, or the estimate (0 when absent) reaches it.
EligibleByClaim(r, spend) ==
    \/ r.spend_threshold = <<>>
    \/ (IF spend = <<>> THEN 0 ELSE spend[1]) >= r.spend_threshold[1]

\* Rule number i is a hit of tier k.
Hit(k, i, X, Y, spend) ==
    InTier(k, routingrule[i], X, Y) /\ EligibleByClaim(routingrule[i], spend)

\* C8: for a request with department X and type Y the resolver returns a rule
\* whenever some tier has a hit, and the rule it returns is the hit that comes
\* first by tier ({X and Y}, {Y}, {X}, {}) and, within the tier, by store order.
C8_TierPrecedence ==
    \A X \in ResolveDepartments, Y \in ResolveTypes, spend \in ResolveSpends :
        LET res == select_routing_rule(X, Y, spend)
            hits == {<<k, i>> \in (1..4) \X DOMAIN routingrule : Hit(k, i, X, Y, spend)}
        IN /\ hits # {} => res # <<>>
           /\ res # <<>> =>
                \E h \in hits :
                    /\ res[1] = routingrule[h[2]]
                    /\ \A g \in hits : h[1] < g[1] \/ (h[1] = g[1] /\ h[2] <= g[2])

\* C8 witness: the store holds R3{} before R2{type} before R1{dept, type}, with
\* thresholds none, 1 and 2; a submission for (Eng, CAPEX) has been made, and the
\* resolver answers R1 at estimate 2, R2 at estimate 1 and R3 without an estimate.
C8_Witness ==
    /\ Len(routingrule) = 3
    /\ routingrule[1].department = NULL /\ routingrule[1].type_code = NULL
    /\ routingrule[1].spend_threshold = <<>>
    /\ routingrule[2].department = NULL /\ routingrule[2].type_code = "CAPEX"
    /\ routingrule[2].spend_threshold = <<1>>
    /\ routingrule[3].department = "Eng" /\ routingrule[3].type_code = "CAPEX"
    /\ routingrule[3].spend_threshold = <<2>>
    /\ select_routing_rule("Eng", "CAPEX", <<2>>) = <<routingrule[3]>>
    /\ select_routing_rule("Eng", "CAPEX", <<1>>) = <<routingrule[2]>>
    /\ select_routing_rule("Eng", "CAPEX", <<>>) = <<routingrule[1]>>
    /\ last.op = "create"
    /\ justification[last.target].cost_estimate = <<1>>
    /\ TasksOf(approvaltask, last.target) # {}

\* The resolver returns a rule exactly when some stored rule is eligible, and only
\* an eligible one.
C9_Resolver ==
    \A X \in ResolveDepartments, Y \in ResolveTypes, spend \in ResolveSpends :
        LET res == select_routing_rule(X, Y, spend)
        IN /\ res = <<>> <=>
                \A i \in DOMAIN routingrule : ~EligibleByClaim(routingrule[i], spend)
           /\ res # <<>> => EligibleByClaim(res[1], spend)

\* A Submit step made when no stored rule is eligible adds no task and no
\* approvers' notification, and the new justification is PendingApproval.
C9_SubmitStep ==
    (/\ last'.op = "create"
     /\ \A i \in DOMAIN routingrule :
            ~EligibleByClaim(routingrule[i], justification'[last'.target].cost_estimate)) =>
        /\ approvaltask' = approvaltask
        /\ justification'[last'.target].status = J_PENDING
        /\ \A m \in BagToSet(emailoutbox') :
                m.subject = "New approval request" => m \in BagToSet(emailoutbox)

\* C9: a rule is eligible iff it has no threshold or the estimate (0 when absent)
\* is >= the threshold; the resolver returns none exactly when no stored rule is
\* eligible, and a Submit made then creates no task and leaves the justification
\* in PendingApproval with no approvers.
C9_Threshold == []C9_Resolver /\ [][C9_SubmitStep]_vars

\* C9 witness: a justification without an estimate has just been submitted while
\* the store holds a rule for its department and type whose threshold the
\* estimate misses, and no eligible rule; it has no task and is PendingApproval.
C9_Witness ==
    /\ last.op = "create"
    /\ justification[last.target].cost_estimate = <<>>
    /\ justification[last.target].status = J_PENDING
    /\ TasksOf(approvaltask, last.target) = {}
    /\ \E i \in DOMAIN routingrule :
            InTier(1, routingrule[i], justification[last.target].department,
                   justification[last.target].type_code)
    /\ \A i \in DOMAIN routingrule : ~EligibleByClaim(routingrule[i], <<>>)
    /\ select_routing_rule(justification[last.target].department,
                           justification[last.target].type_code, <<>>) = <<>>

(* ------------------------------- audit -------------------------------- *)
AuditTag(op) ==
    CASE op = "create" -> "CREATE"
      [] op = "approve" -> "APPROVE"
      [] op = "reject" -> "REJECT"
      [] op = "request_info" -> "REQUEST_INFO"
      [] op = "resubmit" -> "RESUBMIT"
      [] op = "comment" -> "COMMENT"

\* The justification a served request acted on.
AffectedJustification(req) ==
    IF req.op \in {"approve", "reject", "request_info"}
        THEN approvaltask[req.target].justification_id
        ELSE req.target

\* What every step must do to the audit log (C10).
C10_AuditStep ==
    IF last'.code = 200
    THEN auditlog' = auditlog (+) SetToBag({[entity |-> "justification",
                                             entity_id |-> AffectedJustification(last'),
                                             action |-> AuditTag(last'.op)]})
    ELSE auditlog' = auditlog

\* C10: a step that serves Submit, Approve, Reject, RequestInfo, Resubmit or add
\* Comment successfully adds exactly one audit entry, bound to the justification
\* acted on and tagged with the action; a step that serves a failing request adds
\* none.
C10_Audit == [][C10_AuditStep]_vars

\* C10 witness: one justification has been submitted, had information requested,
\* been resubmitted and commented: four successful actions, four audit entries,
\* one per tag.
C10_Witness ==
    /\ last.code = 200
    /\ \E jid \in DOMAIN justification :
        \A a \in {"CREATE", "REQUEST_INFO", "RESUBMIT", "COMMENT"} :
            AuditCount(jid, a) = 1

(* ------------------------ submission side effects ---------------------- *)
\* What a Submit step that resolves to at least one approver must write (C11).
C11_SubmitEffectsStep ==
    (last'.op = "create"
        /\ ResolvedApprovers(justification'[last'.target]) # <<>>) =>
        LET jid == last'.target
            approvers == ResolvedApprovers(justification'[jid])
        IN /\ auditlog' = auditlog (+) SetToBag({[entity |-> "justification",
                                                  entity_id |-> jid, action |-> "CREATE"]})
           /\ emailoutbox' = emailoutbox
                (+) SetToBag({[to |-> approvers, subject |-> "New approval request",
                               html |-> jid]})
                (+) SetToBag({[to |-> <<justification'[jid].requester_email>>,
                               subject |-> "Submission received", html |-> jid]})
           /\ BagCardinality(emailoutbox') = BagCardinality(emailoutbox) + 2

\* C11: a Submit step that resolves to at least one approver adds exactly one
\* CREATE audit entry and exactly two notifications, one addressed to the whole
\* list of resolved approvers and one receipt to the requester, whatever the
\* number of approvers.
C11_SubmitEffects == [][C11_SubmitEffectsStep]_vars

\* C11 witness: a submission with two approvers has just been served; the outbox
\* holds its one batch to both approvers and its one receipt, the log its one
\* CREATE entry.
C11_Witness ==
    /\ last.op = "create"
    /\ Len(ResolvedApprovers(justification[last.target])) = 2
    /\ CopiesIn([to |-> <<"a@x", "b@x">>, subject |-> "New approval request",
                 html |-> last.target], emailoutbox) = 1
    /\ CopiesIn([to |-> <<Requester>>, subject |-> "Submission received",
                 html |-> last.target], emailoutbox) = 1
    /\ AuditCount(last.target, "CREATE") = 1

(* --------------------------- error responses --------------------------- *)
\* C12 (as claimed): a RequestInfo step whose reason is missing or empty is
\* refused as an invalid argument (400, or the 422 of body validation) and
\* leaves every collection as it was.
C12_RequestInfoNeedsReason ==
    [][(last'.op = "request_info" /\ last'.reason \in {NULL, ""}) =>
            (last'.code \in {400, 422} /\ UNCHANGED store)]_vars

\* What a step serving a request that names no stored document must do (C13).
C13_NotFoundStep ==
    (\/ /\ last'.op = "approve"
        /\ last'.target \notin DOMAIN approvaltask
     \/ /\ last'.op = "reject" /\ last'.reason \notin {NULL, ""}
        /\ last'.target \notin DOMAIN approvaltask
     \/ /\ last'.op = "request_info" /\ last'.reason # NULL
        /\ last'.target \notin DOMAIN approvaltask
     \/ /\ last'.op \in {"resubmit", "comment"}
        /\ last'.target \notin DOMAIN justification) =>
        /\ last'.code = 404
        /\ UNCHANGED store

C14_RejectedTerminal ==
    [][\A j \in DOMAIN justification :
          (justification[j].status = STATUS_REJECTED
              /\ last'.op \in {"approve", "reject", "request_info"}) =>
              justification'[j].status = STATUS_REJECTED]_vars

(* --------------------------- no step-order gate ------------------------ *)
\* What an approver action on a stored task must do, whatever the other tasks of
\* the justification look like (C15).
C15_NoGateStep ==
    /\ (last'.op = "approve" /\ last'.target \in DOMAIN approvaltask) =>
          /\ last'.code = 200
          /\ approvaltask'[last'.target].status = STATUS_APPROVED
    /\ (last'.op = "reject" /\ last'.reason \notin {NULL, ""}
            /\ last'.target \in DOMAIN approvaltask) =>
          /\ last'.code = 200
          /\ approvaltask'[last'.target].status = STATUS_REJECTED
    /\ (last'.op = "request_info" /\ last'.reason # NULL
            /\ last'.target \in DOMAIN approvaltask) =>
          /\ last'.code = 200
          /\ approvaltask'[last'.target].status = STATUS_NEEDS_INFO
    /\ last'.op \in {"approve", "reject", "request_info"} =>
          \A t \in DOMAIN approvaltask :
              approvaltask'[t].step_index = approvaltask[t].step_index

\* C15: Approve on a stored task -- a Pending one in particular -- answers 200
\* and sets it to Approved whatever the statuses of the tasks of lower step index
\* of the same justification; Approve, Reject and RequestInfo decide nothing on
\* step_index and leave it as it was.
C15_NoGate == [][C15_NoGateStep]_vars

\* C15 witness: the task of step 1 has just been approved from Pending while the
\* task of step 0 of the same justification is still Pending.
C15_Witness ==
    /\ last.op = "approve" /\ last.code = 200
    /\ last.target \in DOMAIN approvaltask
    /\ approvaltask[last.target].step_index = 1
    /\ approvaltask[last.target].status = STATUS_APPROVED
    /\ \E t \in TasksOf(approvaltask, approvaltask[last.target].justification_id) :
          /\ approvaltask[t].step_index = 0
          /\ approvaltask[t].status = STATUS_PENDING

(* --------------------------- task set stability ------------------------ *)
\* Step indices are pairwise distinct within a justification.
DistinctSteps ==
    \A t, u \in DOMAIN approvaltask :
        (t # u /\ approvaltask[t].justification_id = approvaltask[u].justification_id) =>
            approvaltask[t].step_index # approvaltask[u].step_index

\* What every step must keep of the tasks already stored (C17).
C17_StableStep ==
    /\ \A t \in DOMAIN approvaltask :
          /\ t \in DOMAIN approvaltask'
          /\ approvaltask'[t].justification_id = approvaltask[t].justification_id
          /\ approvaltask'[t].approver_email = approvaltask[t].approver_email
          /\ approvaltask'[t].step_index = approvaltask[t].step_index
          /\ approvaltask'[t].status # approvaltask[t].status =>
                \/ /\ last'.op \in {"approve", "reject", "request_info"}
                   /\ last'.target = t
                \/ /\ last'.op = "resubmit"
                   /\ last'.target = approvaltask[t].justification_id
                   /\ approvaltask[t].status = STATUS_NEEDS_INFO
                   /\ approvaltask'[t].status = STATUS_PENDING
    /\ \A t \in DOMAIN approvaltask' \ DOMAIN approvaltask :
          /\ last'.op = "create"
          /\ approvaltask'[t].justification_id \notin DOMAIN justification
    /\ \A j \in DOMAIN justification :
          TasksOf(approvaltask', j) = TasksOf(approvaltask, j)

\* C17: once a justification has been submitted its set of tasks is fixed: no
\* step adds a task to it, removes or renumbers one, or changes a task's
\* justification_id, approver or step_index; step indices are pairwise distinct
\* within a justification; and a task's status changes only by Approve, Reject or
\* RequestInfo on that task, or by Resubmit of its justification from
\* NeedsMoreInfo to Pending.
C17_TaskSetStable == []DistinctSteps /\ [][C17_StableStep]_vars

\* C17 witness: a justification with two tasks of step indices 0 and 1 went
\* through RequestInfo and Resubmit, a second justification was submitted after
\* it, and the first still has exactly its two tasks.
C17_Witness ==
    /\ Len(justification) = 2
    /\ TasksOf(approvaltask, 1) = {1, 2}
    /\ approvaltask[1].step_index = 0 /\ approvaltask[2].step_index = 1
    /\ AuditCount(1, "REQUEST_INFO") = 1 /\ AuditCount(1, "RESUBMIT") = 1
    /\ TasksOf(approvaltask, 2) # {}

(* ----------------------- NeedsMoreInfo consistency --------------------- *)
\* C20 (as claimed): a justification is NeedsMoreInfo only if at least one of
\* its tasks is NeedsMoreInfo.
C20_NeedsInfoHasTask ==
    \A j \in DOMAIN justification :
        justification[j].status = STATUS_NEEDS_INFO =>
            \E t \in TasksOf(approvaltask, j) : approvaltask[t].status = STATUS_NEEDS_INFO

\* C20 (amended): a justification is NeedsMoreInfo only if one of its tasks is
\* NeedsMoreInfo, or one of its tasks that had asked for information (its reason
\* is stored) has since been approved while another task was not yet Approved.
C20_NeedsInfoAmended ==
    \A j \in DOMAIN justification :
        justification[j].status = STATUS_NEEDS_INFO =>
            \/ \E t \in TasksOf(approvaltask, j) : approvaltask[t].status = STATUS_NEEDS_INFO
            \/ /\ \E t \in TasksOf(approvaltask, j) :
                      /\ approvaltask[t].status = STATUS_APPROVED
                      /\ approvaltask[t].requested_more_info # NULL
               /\ \E t \in TasksOf(approvaltask, j) : approvaltask[t].status # STATUS_APPROVED

\* C20 witness: the task that asked for information has been approved, no task
\* of the justification is NeedsMoreInfo, and the justification still is.
C20_Witness ==
    \E j \in DOMAIN justification :
        /\ justification[j].status = STATUS_NEEDS_INFO
        /\ \A t \in TasksOf(approvaltask, j) : approvaltask[t].status # STATUS_NEEDS_INFO
        /\ \E t \in TasksOf(approvaltask, j) :
              /\ approvaltask[t].status = STATUS_APPROVED
              /\ approvaltask[t].requested_more_info # NULL

(* ----------------------- failing side channels ------------------------- *)
\* C16 (as claimed): Submit, Approve, Reject, RequestInfo and Resubmit, when not
\* refused for their input (400, 404, 422), report success whether or not an
\* audit or notification write fails, and an approval that leaves no task of the
\* justification non-Approved leaves the justification Approved.
C16_SideChannelsNonFatal ==
    [][(last'.op \in {"create", "approve", "reject", "request_info", "resubmit"}
            /\ last'.code \notin {400, 404, 422}) =>
         /\ last'.code = 200
         /\ (last'.op = "approve" /\ last'.target \in DOMAIN approvaltask') =>
              LET jid == approvaltask'[last'.target].justification_id
              IN count_not_approved(approvaltask', jid) = 0 =>
                    justification'[jid].status = STATUS_APPROVED]_vars

(* --------------------- interleaved store operations -------------------- *)
\* No request is being served: every call is either not started or has returned.
Quiescent == \A p \in Procs : calls[p].pc \in {"idle", "done"}

\* C18 (as claimed): under any interleaving of the store operations of
\* concurrent Approve, Reject, RequestInfo and Resubmit calls, a justification
\* whose status is Approved has all its tasks Approved. Stated for the states in
\* which every call has returned, so that no half-done handler is blamed.
C18_ApprovedImpliesAllApproved ==
    Quiescent =>
        \A j \in DOMAIN justification :
            justification[j].status = STATUS_APPROVED =>
                \A t \in TasksOf(approvaltask, j) : approvaltask[t].status = STATUS_APPROVED

\* C19 (as claimed): while fewer tasks of a justification exist than its
\* resolved approver list has entries -- Submit is still inserting them -- the
\* justification is not Approved and no final-approval notification for it has
\* been sent.
C19_NoPrematureApproval ==
    \A j \in DOMAIN justification :
        Cardinality(TasksOf(approvaltask, j)) < Len(ResolvedApprovers(justification[j])) =>
            /\ justification[j].status # STATUS_APPROVED
            /\ FinalApprovals(j) = 0

====
